---------------------------- MODULE Spec2Model ----------------------------
(***************************************************************************)
(* A model of src/src/PersistFormikValues.tsx: the PersistFormikValues     *)
(* component, which persists the values of a Formik form to a storage      *)
(* backend and is meant to restore them on mount.                          *)
(*                                                                         *)
(* Strings are sequences of one-character strings, so that the checksum    *)
(* (a sum of character codes), the decimal formatting of the checksum in   *)
(* the storage key, the JSON text of a snapshot and the substring test of  *)
(* the pruning loop are all computed as the code computes them.            *)
(*                                                                         *)
(* An object (FormikValues) is a sequence of <<field, value>> pairs with   *)
(* distinct fields: JavaScript objects keep the insertion order of their   *)
(* string keys, and JSON.stringify and the spread operator follow it.      *)
(*                                                                         *)
(* Environment: the Formik context (values, initialValues, isValid), the   *)
(* storage backend and the react-use debounce timer are the collaborators  *)
(* of the component.  The configuration props other than persistInvalid    *)
(* are fixed for the lifetime of a behaviour; the storage object keeps its *)
(* identity between renders (window.localStorage, or one custom object).   *)
(***************************************************************************)
EXTENDS Integers, Sequences, FiniteSets, TLC

VARIABLES
  cfg,            \* the props, whether `window` is declared, whether the store may fail
  persistInvalid, \* the persistInvalid prop (it may change between renders)
  values,         \* Formik context: current values
  initialValues,  \* Formik context: initial values
  isValid,        \* Formik context: validity flag
  content,        \* the storage backend: key -> stored text
  mounted,        \* "initial", "mounted", "unmounted", or "crashed" by an error in a render
  name,           \* the memoised storage key of the last render (line 81)
  state,          \* the memoised `state` of the last render (line 91)
  pendingGets,    \* promises of line 94 not settled yet, oldest first
  hpv,            \* the handlePersistValues closure (line 104): captured name, keyName
  hp,             \* the handlePersist closure (line 128) held by the debounce callback ref
  timer,          \* the debounce timer of line 155: "idle" or "armed"
  out,            \* what the last step did: store calls, diagnostics, setValues, errors
  hist            \* history: what happened since the mount

vars == <<cfg, persistInvalid, values, initialValues, isValid, content, mounted,
          name, state, pendingGets, hpv, hp, timer, out, hist>>

---------------------------------------------------------------------------
(* Strings and characters *)

\* const KEY_DELIMITER = '_'
KEY_DELIMITER == <<"_">>

\* String.prototype.charCodeAt for the characters the model uses
CharCode(c) ==
  CASE c = "\"" -> 34
    [] c = "," -> 44
    [] c = "0" -> 48 [] c = "1" -> 49 [] c = "2" -> 50 [] c = "3" -> 51
    [] c = "4" -> 52 [] c = "5" -> 53 [] c = "6" -> 54 [] c = "7" -> 55
    [] c = "8" -> 56 [] c = "9" -> 57
    [] c = ":" -> 58
    [] c = "_" -> 95
    [] c = "a" -> 97 [] c = "b" -> 98 [] c = "f" -> 102 [] c = "p" -> 112
    [] c = "u" -> 117 [] c = "x" -> 120
    [] c = "{" -> 123
    [] c = "}" -> 125

Digit(d) ==
  CASE d = 0 -> "0" [] d = 1 -> "1" [] d = 2 -> "2" [] d = 3 -> "3" [] d = 4 -> "4"
    [] d = 5 -> "5" [] d = 6 -> "6" [] d = 7 -> "7" [] d = 8 -> "8" [] d = 9 -> "9"

\* Number -> string conversion of a template literal, for a natural number
RECURSIVE NumberToString(_)
NumberToString(n) ==
  IF n < 10 THEN <<Digit(n)>> ELSE NumberToString(n \div 10) \o <<Digit(n % 10)>>

\* key.indexOf(sub) > -1
IndexOfFound(key, sub) ==
  \E i \in 1..(Len(key) - Len(sub) + 1) : SubSeq(key, i, i + Len(sub) - 1) = sub

---------------------------------------------------------------------------
(* Numbers.  A JavaScript Number is an IEEE 754 double; sums of character   *)
(* codes times a whole specificity are exact and are computed on integers.  *)
(* A specificity with a fraction needs the rounding of every product and    *)
(* sum, computed here on natural numbers of any size: the sequence of their *)
(* digits to the base LimbBase, lowest first, without leading zeros (zero   *)
(* is the empty sequence)                                                   *)

LimbBits == 15
LimbBase == 32768

RECURSIVE TwoTo(_)
TwoTo(k) == IF k = 0 THEN 1 ELSE 2 * TwoTo(k - 1)

RECURSIVE BigOfNat(_)
BigOfNat(n) == IF n = 0 THEN <<>> ELSE <<n % LimbBase>> \o BigOfNat(n \div LimbBase)

RECURSIVE Trim(_)
Trim(a) ==
  IF a = <<>> THEN a
  ELSE IF a[Len(a)] = 0 THEN Trim(SubSeq(a, 1, Len(a) - 1)) ELSE a

Limb(a, i) == IF i <= Len(a) THEN a[i] ELSE 0

RECURSIVE AddFrom(_, _, _, _)
AddFrom(a, b, i, carry) ==
  IF i > Len(a) /\ i > Len(b) THEN (IF carry = 0 THEN <<>> ELSE <<carry>>)
  ELSE LET t == Limb(a, i) + Limb(b, i) + carry
       IN  <<t % LimbBase>> \o AddFrom(a, b, i + 1, t \div LimbBase)

BigAdd(a, b) == AddFrom(a, b, 1, 0)

\* a - b, for a >= b
RECURSIVE SubFrom(_, _, _, _)
SubFrom(a, b, i, borrow) ==
  IF i > Len(a) THEN <<>>
  ELSE LET t == Limb(a, i) - Limb(b, i) - borrow
       IN  <<t % LimbBase>> \o SubFrom(a, b, i + 1, IF t < 0 THEN 1 ELSE 0)

BigSub(a, b) == Trim(SubFrom(a, b, 1, 0))

RECURSIVE LessFrom(_, _, _)
LessFrom(a, b, i) ==
  IF i = 0 THEN FALSE
  ELSE IF a[i] # b[i] THEN a[i] < b[i]
  ELSE LessFrom(a, b, i - 1)

BigLess(a, b) == IF Len(a) # Len(b) THEN Len(a) < Len(b) ELSE LessFrom(a, b, Len(a))

\* a * d, for 0 <= d < LimbBase
RECURSIVE MulSmallFrom(_, _, _, _)
MulSmallFrom(a, d, i, carry) ==
  IF i > Len(a) THEN (IF carry = 0 THEN <<>> ELSE <<carry>>)
  ELSE LET t == a[i] * d + carry
       IN  <<t % LimbBase>> \o MulSmallFrom(a, d, i + 1, t \div LimbBase)

MulSmall(a, d) == IF d = 0 THEN <<>> ELSE MulSmallFrom(a, d, 1, 0)

ShiftLimbs(a, n) == IF a = <<>> THEN a ELSE [i \in 1..n |-> 0] \o a

RECURSIVE MulFrom(_, _, _)
MulFrom(a, b, i) ==
  IF i > Len(b) THEN <<>>
  ELSE BigAdd(ShiftLimbs(MulSmall(a, b[i]), i - 1), MulFrom(a, b, i + 1))

BigMul(a, b) == MulFrom(a, b, 1)

\* quotient and remainder of a by d, for 0 < d <= LimbBase
RECURSIVE DivModFrom(_, _, _)
DivModFrom(a, d, i) ==
  IF i > Len(a) THEN [q |-> <<>>, r |-> 0]
  ELSE LET hi == DivModFrom(a, d, i + 1)
           t == hi.r * LimbBase + a[i]
       IN  [q |-> <<t \div d>> \o hi.q, r |-> t % d]

TrimQuotient(qr) == [q |-> Trim(qr.q), r |-> qr.r]
DivMod(a, d) == TrimQuotient(DivModFrom(a, d, 1))

\* a * 2^k and the whole part of a / 2^k
ShiftLeft(a, k) == ShiftLimbs(MulSmall(a, TwoTo(k % LimbBits)), k \div LimbBits)
ShiftRight(a, k) ==
  IF Len(a) <= k \div LimbBits THEN <<>>
  ELSE DivMod(SubSeq(a, k \div LimbBits + 1, Len(a)), TwoTo(k % LimbBits)).q

RECURSIVE SmallBitLength(_)
SmallBitLength(n) == IF n = 0 THEN 0 ELSE 1 + SmallBitLength(n \div 2)

BitLength(a) ==
  IF a = <<>> THEN 0 ELSE LimbBits * (Len(a) - 1) + SmallBitLength(a[Len(a)])

IsOdd(a) == a # <<>> /\ a[1] % 2 = 1

RECURSIVE Pow10(_)
Pow10(p) == IF p = 0 THEN <<1>> ELSE MulSmall(Pow10(p - 1), 10)

\* the decimal digits of a, highest first
RECURSIVE Decimal(_)
DecimalThenDigit(qr) == Decimal(qr.q) \o <<qr.r>>
Decimal(a) == IF a = <<>> THEN <<>> ELSE DecimalThenDigit(DivMod(a, 10))

\* a / 2^k rounded to the nearest whole number, a tie to the even one: kept
\* is the whole part, rest the part cut off and half is 2^(k - 1)
RoundUp(kept, rest, half) ==
  IF BigLess(half, rest) \/ (rest = half /\ IsOdd(kept)) THEN BigAdd(kept, <<1>>)
  ELSE kept
RoundKept(a, k, kept) ==
  RoundUp(kept, BigSub(a, ShiftLeft(kept, k)), ShiftLeft(<<1>>, k - 1))
RoundShift(a, k) == IF k = 0 THEN a ELSE RoundKept(a, k, ShiftRight(a, k))

(* The Number values that are not negative: m * 2^e with m odd and below     *)
(* 2^MantissaBits (zero: m empty, e = 0)                                     *)

MantissaBits == 53

RECURSIVE Canonical(_, _)
Canonical(m, e) ==
  IF m = <<>> THEN [m |-> <<>>, e |-> 0]
  ELSE IF IsOdd(m) THEN [m |-> m, e |-> e]
  ELSE Canonical(ShiftRight(m, 1), e + 1)

\* the Number nearest to a * 2^e, a tie to the even mantissa
RoundToNumber(a, e) ==
  LET k == IF BitLength(a) > MantissaBits THEN BitLength(a) - MantissaBits ELSE 0
  IN  Canonical(RoundShift(a, k), e + k)

NumberOfNat(n) == Canonical(BigOfNat(n), 0)

\* the Number a decimal literal n.t denotes
NumberOfLiteral(n, t) ==
  LET scaled == DivMod(ShiftLeft(BigOfNat(10 * n + t), 60), 10)
      odd == IF scaled.r > 0 THEN <<1>> ELSE <<>>
  IN  RoundToNumber(BigAdd(ShiftLeft(scaled.q, 1), odd), -61)

NumberMul(x1, y1) == RoundToNumber(BigMul(x1.m, y1.m), x1.e + y1.e)

NumberAdd(x1, y1) ==
  IF x1.m = <<>> THEN y1
  ELSE IF y1.m = <<>> THEN x1
  ELSE LET e == IF x1.e < y1.e THEN x1.e ELSE y1.e
       IN  RoundToNumber(BigAdd(ShiftLeft(x1.m, x1.e - e), ShiftLeft(y1.m, y1.e - e)), e)

\* the decimal digits * 10^-p reads back as the Number m53 / 2^q: twice its
\* distance from it is less than the gap between Numbers (a tie reads back
\* when m53 is even)
ReadsBack(m53, scale, bound) ==
  BigLess(bound, scale) \/ (~IsOdd(m53) /\ bound = scale)

\* twice the distance of back / scale from exact / scale, doubled once more
\* just below a power of two, where the Numbers lie twice as close
ErrorBound(m53, exact, back) ==
  LET below == BigLess(back, exact)
      narrow == below /\ m53 = ShiftLeft(<<1>>, MantissaBits - 1)
  IN  ShiftLeft(IF below THEN BigSub(exact, back) ELSE BigSub(back, exact),
                IF narrow THEN 2 ELSE 1)

\* the digits m53 / 2^q * 10^p rounds to, for the least p at which they read
\* back as m53 / 2^q
RECURSIVE ShortestDecimal(_, _, _)
ShortestDigits(m53, q, p, scale, exact, digits) ==
  IF ReadsBack(m53, scale, ErrorBound(m53, exact, ShiftLeft(digits, q))) \/ p >= 17
    THEN [digits |-> digits, p |-> p]
    ELSE ShortestDecimal(m53, q, p + 1)
ShortestExact(m53, q, p, scale, exact) ==
  ShortestDigits(m53, q, p, scale, exact, RoundShift(exact, q))
ShortestScaled(m53, q, p, scale) ==
  ShortestExact(m53, q, p, scale, BigMul(m53, scale))
ShortestDecimal(m53, q, p) == ShortestScaled(m53, q, p, Pow10(p))

DigitsText(ds) == [i \in DOMAIN ds |-> Digit(ds[i])]

\* the digits ds with a point before the last p of them, zeros put in front
\* so that a digit stands before the point
PointText(ds, p) ==
  IF p = 0 THEN DigitsText(ds)
  ELSE DigitsText(SubSeq(ds, 1, Len(ds) - p)) \o <<".">>
       \o DigitsText(SubSeq(ds, Len(ds) - p + 1, Len(ds)))
PadText(ds, p) ==
  PointText(IF Len(ds) > p THEN ds ELSE [i \in 1..(p + 1 - Len(ds)) |-> 0] \o ds, p)
ShortestText(s) == PadText(Decimal(s.digits), s.p)
FractionText(d, pad) ==
  ShortestText(ShortestDecimal(ShiftLeft(d.m, pad), pad - d.e, 0))

\* Number::toString, for a Number printed without an exponent: the shortest
\* decimal that reads back as the same Number
NumberText(d) ==
  IF d.m = <<>> THEN <<"0">>
  ELSE IF d.e >= 0 THEN DigitsText(Decimal(ShiftLeft(d.m, d.e)))
  ELSE FractionText(d, MantissaBits - BitLength(d.m))

---------------------------------------------------------------------------
(* Objects and JSON *)

Fields == {"u", "p"}
FieldValues == {"a", "b"}

ObjKeys(o) == {o[i][1] : i \in DOMAIN o}
ObjGet(o, k) == LET i == CHOOSE j \in DOMAIN o : o[j][1] = k IN o[i][2]

\* every object over Fields and FieldValues, in every key order
AllObjs ==
  {o \in UNION {[1..n -> Fields \X FieldValues] : n \in 0..Cardinality(Fields)} :
     \A i, j \in DOMAIN o : i # j => o[i][1] # o[j][1]}

\* obj[k] = v: an existing key keeps its position, a new key is appended
ObjSet(o, k, v) ==
  IF k \in ObjKeys(o)
    THEN [i \in DOMAIN o |-> IF o[i][1] = k THEN <<k, v>> ELSE o[i]]
    ELSE Append(o, <<k, v>>)

\* { ...a, ...b }
RECURSIVE Spread(_, _)
Spread(a, b) ==
  IF b = <<>> THEN a ELSE Spread(ObjSet(a, Head(b)[1], Head(b)[2]), Tail(b))

\* a field value that refers back to the object holding it
Circular == "[Circular]"

\* JSON.stringify throws TypeError: the object is a cyclic structure
StringifyThrows(o) == \E i \in DOMAIN o : o[i][2] = Circular

\* the members of JSON.stringify's output, in the object's key order
RECURSIVE StringifyMembers(_)
StringifyMembers(o) ==
  IF o = <<>> THEN <<>>
  ELSE <<"\"", Head(o)[1], "\"", ":", "\"", Head(o)[2], "\"">>
       \o (IF Tail(o) = <<>> THEN <<>> ELSE <<",">> \o StringifyMembers(Tail(o)))

\* JSON.stringify of an object whose values are strings
JSONstringify(o) == <<"{">> \o StringifyMembers(o) \o <<"}">>

\* the text a store keeps when it is handed JSON.stringify(undefined), i.e. undefined
UndefinedText == <<"u", "n", "d", "e", "f", "i", "n", "e", "d">>

\* JSON.parse succeeds on the text
JSONparses(text) == \E o \in AllObjs : JSONstringify(o) = text

\* JSON.parse of a text it accepts
JSONparse(text) == CHOOSE o \in AllObjs : JSONstringify(o) = text

---------------------------------------------------------------------------
(* KeyResolver: getHash and the memoised name *)

\* the default of getHash's specificity parameter
DefaultSpecificity == 7

\* .replace(/\{|\"|\}|\:|,/g, '')
StripPunctuation(text) ==
  SelectSeq(text, LAMBDA c : c \notin {"{", "\"", "}", ":", ","})

\* a positional sum: hc = hc * specificity + charCode, first character last
RECURSIVE SumCodesPositional(_, _)
SumCodesPositional(chars, specificity) ==
  IF chars = <<>> THEN 0
  ELSE CharCode(Head(chars)) + specificity * SumCodesPositional(Tail(chars), specificity)

\* for (i = 0; i < len; i++) hc += chars.charCodeAt(i) * specificity
RECURSIVE SumCodes(_, _)
SumCodes(chars, specificity) ==
  IF chars = <<>> THEN 0
  ELSE CharCode(Head(chars)) * specificity + SumCodes(Tail(chars), specificity)

\* the same loop for a specificity that is not a whole number: every product
\* and every sum is rounded to a Number
RECURSIVE SumCodesRounded(_, _)
SumCodesRounded(chars, specificity) ==
  IF chars = <<>> THEN NumberOfNat(0)
  ELSE NumberAdd(SumCodesRounded(SubSeq(chars, 1, Len(chars) - 1), specificity),
                 NumberMul(NumberOfNat(CharCode(chars[Len(chars)])), specificity))

\* the hashSpecificity prop is <<>> when it is not given, <<n>> for the whole
\* number n and <<n, t>> for the decimal n.t
HasFraction(hashSpecificity) == Len(hashSpecificity) = 2

\* getHash(obj, specificity = 7): try { ... } catch (error) { hc = 0 }.  The
\* result is an integer for a whole specificity and a Number (m, e) otherwise
GetHash(obj, hashSpecificity) ==
  LET specificity == IF hashSpecificity = <<>> THEN DefaultSpecificity
                     ELSE hashSpecificity[1]
  IN  IF HasFraction(hashSpecificity)
        THEN IF StringifyThrows(obj) THEN NumberOfNat(0)
             ELSE SumCodesRounded(StripPunctuation(JSONstringify(obj)),
                                  NumberOfLiteral(hashSpecificity[1], hashSpecificity[2]))
      ELSE IF StringifyThrows(obj) THEN 0
      ELSE SumCodes(StripPunctuation(JSONstringify(obj)), specificity)

\* the checksum as the template literal of the key prints it
HashText(obj, hashSpecificity) ==
  IF HasFraction(hashSpecificity) THEN NumberText(GetHash(obj, hashSpecificity))
  ELSE NumberToString(GetHash(obj, hashSpecificity))

\* a render throws before any hook body runs: JSON.stringify(initialValues) in
\* the dependency array of the `name` memo (line 86) and JSON.stringify(values)
\* (line 126) are outside getHash's try
RenderStringifyThrows(iv, v) == StringifyThrows(iv) \/ StringifyThrows(v)

\* const keyName = `${defaultName}${KEY_DELIMITER}`
KeyName(c) == c.name \o KEY_DELIMITER

\* the useMemo of `name`: recomputed whenever one of its inputs changes
ResolveName(c, iv) ==
  IF c.hashInitials
    THEN KeyName(c) \o HashText(iv, c.hashSpecificity)
    ELSE c.name

---------------------------------------------------------------------------
(* StorageAdapter: useBrowser, useStorage and the store's operations *)

BrowserChoices == {"default", "localStorage", "sessionStorage"}
\* a caller's store: "customSync" answers at once, "customAsync" and
\* "customKeyed" return promises; "customKeyed" keeps its items as own
\* properties, the way a Storage does
CustomChoices == {"customSync", "customAsync", "customKeyed"}
PromiseChoices == {"customAsync", "customKeyed"}

\* useBrowser = () => !!window: reading an undeclared global throws ReferenceError
\* (c.window is "object" in a browser, "undeclared" where no global of that
\* name exists, "undefined" where the global is declared without a value)
UseBrowserThrows(c) == c.window = "undeclared"

\* useStorage: "none" stands for undefined
UseStorage(c) ==
  LET storage == IF c.storage = "default" THEN "localStorage" ELSE c.storage
      isBrowser == c.window = "object"
  IN  CASE storage = "sessionStorage" -> IF isBrowser THEN "sessionStorage" ELSE "none"
        [] storage = "localStorage" -> IF isBrowser THEN "localStorage" ELSE "none"
        [] OTHER -> storage

\* how a call of a store operation may end: it returns, it throws, or (a store
\* that returns promises) the promise it returns rejects
Outcomes(c) ==
  IF ~c.faulty THEN {"ok"}
  ELSE IF c.storage \in PromiseChoices THEN {"ok", "throw", "reject"}
  ELSE {"ok", "throw"}

\* the members of the CustomStorage interface
CustomStorageMembers ==
  { <<"s", "e", "t", "I", "t", "e", "m">>, <<"g", "e", "t", "I", "t", "e", "m">>,
    <<"r", "e", "m", "o", "v", "e", "I", "t", "e", "m">>, <<"c", "l", "e", "a", "r">> }

\* Object.keys(storage): a browser Storage enumerates its stored keys, a custom
\* store object enumerates its own properties
ObjectKeys(c, cont) ==
  IF c.storage = "customKeyed" THEN CustomStorageMembers \cup DOMAIN cont
  ELSE IF c.storage \in CustomChoices THEN CustomStorageMembers
  ELSE DOMAIN cont

NoValue == [found |-> FALSE, text |-> <<>>]
GetItem(cont, k) ==
  IF k \in DOMAIN cont THEN [found |-> TRUE, text |-> cont[k]] ELSE NoValue
SetItem(cont, k, text) ==
  [x \in DOMAIN cont \cup {k} |-> IF x = k THEN text ELSE cont[x]]
RemoveItems(cont, ks) == [x \in DOMAIN cont \ ks |-> cont[x]]

---------------------------------------------------------------------------
(* What a step does besides changing the state *)

GetOp(k, res) == [op |-> "get", key |-> k, text |-> <<>>, res |-> res]
SetOp(k, text, res) == [op |-> "set", key |-> k, text |-> text, res |-> res]
RemoveOp(k, res) == [op |-> "remove", key |-> k, text |-> <<>>, res |-> res]

Quiet ==
  [ops |-> <<>>,        \* the store calls issued, in order
   diag |-> <<>>,       \* the console.error messages emitted
   setValues |-> <<>>,  \* the argument of setValues, when it was called
   thrown |-> "none",   \* an error left the component: in "render" or in the "timer" callback
   unhandled |-> 0,     \* promises that rejected with no handler attached
   resolved |-> <<>>,   \* the value a settled getItem promise was fulfilled with
   filtered |-> <<>>,   \* valuesToPersist of handlePersist, when it ran past the gate
   applied |-> <<>>,    \* the persistedString the restore effect ran with
   again |-> FALSE]     \* it ran with the persistedString of the step before

\* a set as a sequence, in some order
RECURSIVE SetToSeq(_)
SetToSeq(S) ==
  IF S = {} THEN <<>> ELSE LET x == CHOOSE y \in S : TRUE IN <<x>> \o SetToSeq(S \ {x})

---------------------------------------------------------------------------
(* SyncEngine: the closures and the restore effect *)

\* nothing omitted
OmitNothing(o, names) == o

\* lodash.omit with a list of field names
Omit(o, names) == SelectSeq(o, LAMBDA m : m[1] \notin names)

\* the parseValues prop: "none" when not given, else a caller's function; "mask"
\* returns the snapshot with every value replaced by "a", "void" returns undefined
ParseValues(kind, o) ==
  CASE kind = "mask" -> [defined |-> TRUE, obj |-> [i \in DOMAIN o |-> <<o[i][1], "a">>]]
    [] kind = "void" -> [defined |-> FALSE, obj |-> <<>>]
    [] OTHER -> [defined |-> TRUE, obj |-> o]

\* JSON.stringify(values) of handlePersistValues, as the store keeps it
PayloadText(r) == IF r.defined THEN JSONstringify(r.obj) ELSE UndefinedText

\* useCallback(..., [storage]): the closure made by the first render
NewHandlePersistValues(c, resolvedName) == [name |-> resolvedName, keyName |-> KeyName(c)]

\* what a render captures in handlePersist
NewHandlePersist(c, v, valid, pInvalid) ==
  [values |-> v, isValid |-> valid, persistInvalid |-> pInvalid,
   ignoreValues |-> c.ignoreValues, parseValues |-> c.parseValues]

\* handlePersist made once and never again
RefreshHandlePersistNever(old, c, v, valid, pInvalid) == old

\* useCallback(..., [stringValues, isValid, persistInvalid]) and the callback ref of
\* useDebounce: the closure is replaced when one of the three changed
RefreshHandlePersist(old, c, v, valid, pInvalid) ==
  IF \/ JSONstringify(old.values) # JSONstringify(v)
     \/ old.isValid # valid
     \/ old.persistInvalid # pInvalid
    THEN NewHandlePersist(c, v, valid, pInvalid)
    ELSE old

\* the timer restarted by a change of the values only
ResetTimerOnValuesOnly(old, t, v, valid, pInvalid) ==
  IF JSONstringify(old.values) # JSONstringify(v) THEN "armed" ELSE t

\* useDebounce(handlePersist, debounce, [stringValues, isValid, persistInvalid]):
\* a change of one of the three restarts the timer
ResetTimer(old, t, v, valid, pInvalid) ==
  IF \/ JSONstringify(old.values) # JSONstringify(v)
     \/ old.isValid # valid
     \/ old.persistInvalid # pInvalid
    THEN "armed"
    ELSE t

\* the gate left out
GateOpen(h) == TRUE

\* if (isValid || persistInvalid)
Gate(h) == h.isValid \/ h.persistInvalid

\* ignoreValues ? omit(values, ignoreValues) : values
ValuesToPersist(h) ==
  IF h.ignoreValues # <<>> THEN Omit(h.values, h.ignoreValues[1]) ELSE h.values

\* parseValues ? parseValues(valuesToPersist) : valuesToPersist
PersistArgument(h) ==
  IF h.parseValues # "none" THEN ParseValues(h.parseValues, ValuesToPersist(h))
  ELSE [defined |-> TRUE, obj |-> ValuesToPersist(h)]

\* key.indexOf(keyName) > -1 && key !== name
Prunable(h, key) == IndexOfFound(key, h.keyName) /\ key # h.name

ParseError == "Parse persisted values is not possible"
GetError == "ERROR GETTING ITEM "

\* the useMemo of `state`: item is returned before the promise's then-callback
\* can assign it, so the memo holds undefined (with a store) or null (without);
\* <<>> stands for both
StateMemo(store, got) == <<>>

\* the restore effect comparing the values with the persisted values, not with
\* the merged values
RestoreEffectComparesPersisted(persistedString, iv, v) ==
  IF persistedString = <<>> \/ persistedString[1] = <<>>
    THEN [setValues |-> <<>>, diag |-> <<>>]
  ELSE IF ~JSONparses(persistedString[1])
    THEN [setValues |-> <<>>, diag |-> <<ParseError>>]
  ELSE LET persistedValues == JSONparse(persistedString[1])
       IN  IF JSONstringify(v) # JSONstringify(persistedValues)
             THEN [setValues |-> <<Spread(iv, persistedValues)>>, diag |-> <<>>]
             ELSE [setValues |-> <<>>, diag |-> <<>>]

\* the body of the restore effect (useEffect(..., [persistedString]))
RestoreEffect(persistedString, iv, v) ==
  IF persistedString = <<>> \/ persistedString[1] = <<>>
    THEN [setValues |-> <<>>, diag |-> <<>>]
  ELSE IF ~JSONparses(persistedString[1])
    THEN [setValues |-> <<>>, diag |-> <<ParseError>>]
  ELSE LET newValues == Spread(iv, JSONparse(persistedString[1]))
       IN  IF JSONstringify(v) # JSONstringify(newValues)
             THEN [setValues |-> <<newValues>>, diag |-> <<>>]
             ELSE [setValues |-> <<>>, diag |-> <<>>]

---------------------------------------------------------------------------
(* Bounds and the inputs the behaviours start from *)

\* the history counters stop counting here: the value changes since the timer
\* was last idle, the console.error messages, the calls of setValues
MaxBurst == 2
MaxDiag == 2
MaxReplace == 2

Count(n, more, max) == IF n + more < max THEN n + more ELSE max

FormNames == { <<"f">> }
StorageChoices == BrowserChoices \cup CustomChoices

DefaultConfig ==
  [name |-> <<"f">>, hashInitials |-> FALSE, hashSpecificity |-> <<>>,
   storage |-> "default", window |-> "object", faulty |-> FALSE,
   ignoreValues |-> <<>>, parseValues |-> "none"]

HashConfig == [DefaultConfig EXCEPT !.hashInitials = TRUE]

\* the props, the presence of the global `window` and whether the store's
\* operations may fail: the defaults, and the defaults with one or two changed
Configs ==
  { DefaultConfig,
    HashConfig,
    [HashConfig EXCEPT !.hashSpecificity = <<1>>],
    [DefaultConfig EXCEPT !.storage = "localStorage"],
    [DefaultConfig EXCEPT !.storage = "sessionStorage"],
    [HashConfig EXCEPT !.storage = "customSync"],
    [DefaultConfig EXCEPT !.storage = "customAsync"],
    [DefaultConfig EXCEPT !.window = "undeclared"],
    [DefaultConfig EXCEPT !.window = "undefined"],
    [DefaultConfig EXCEPT !.faulty = TRUE],
    [DefaultConfig EXCEPT !.storage = "customKeyed", !.faulty = TRUE],
    [DefaultConfig EXCEPT !.ignoreValues = <<{"p"}>>],
    [DefaultConfig EXCEPT !.ignoreValues = <<{"p"}>>, !.parseValues = "mask"],
    [DefaultConfig EXCEPT !.parseValues = "mask"],
    [DefaultConfig EXCEPT !.parseValues = "void"] }

\* initial values that hold a reference to themselves
CyclicValues == << <<"u", Circular>> >>

InitialValuesSet ==
  { << <<"u", "a">> >>, << <<"u", "a">>, <<"p", "b">> >> }

\* the initial values a caller may give the form
GivenInitialValues == InitialValuesSet \cup {CyclicValues}

\* a key left by an earlier version of the form's initial values
StaleKey(c) == KeyName(c) \o <<"1">>

\* a key of another form, one named "x" + name that hashes its initial values
ForeignKey(c) == <<"x">> \o KeyName(c) \o <<"1">>

\* a payload persisted earlier, with its fields in another order than the form's
GoodText == JSONstringify(<< <<"p", "a">>, <<"u", "b">> >>)
\* a payload JSON.parse rejects
CorruptText == <<"{">>

\* what the store holds when the form is mounted
InitialContents(c, iv) ==
  LET cur == ResolveName(c, iv)
  IN  { <<>>, cur :> GoodText, cur :> CorruptText,
        (cur :> GoodText) @@ (StaleKey(c) :> GoodText) @@ (ForeignKey(c) :> GoodText) }

NoPersistValues == [name |-> <<>>, keyName |-> <<>>]

NoHistory ==
  [edited |-> FALSE,     \* the values or the initial values were changed from outside
   returned |-> <<>>,    \* what the last settled getItem promise was fulfilled with
   rotatedFrom |-> <<>>, \* the key that held a payload when the resolved key last changed
   burst |-> 0,          \* value changes since the timer was last idle or restarted
                         \* by a change of isValid or persistInvalid
   diags |-> 0,          \* console.error messages
   replaced |-> 0,       \* calls of setValues
   gateArmed |-> FALSE,  \* isValid or persistInvalid changed since the values last did
   cancelled |-> FALSE]  \* the timer was running when the component unmounted

Init ==
  /\ cfg \in Configs
  /\ persistInvalid = FALSE
  /\ initialValues \in GivenInitialValues
  /\ values = initialValues
  /\ isValid = TRUE
  /\ content \in InitialContents(cfg, initialValues)
  /\ mounted = "initial"
  /\ name = <<>>
  /\ state = <<>>
  /\ pendingGets = <<>>
  /\ hpv = NoPersistValues
  /\ hp = NewHandlePersist(cfg, values, isValid, persistInvalid)
  /\ timer = "idle"
  /\ out = Quiet
  /\ hist = NoHistory

---------------------------------------------------------------------------
(* The steps *)

\* a getItem promise of a store that answers synchronously settles in the
\* microtask right after the render, before any other event
Settled == cfg.storage \in PromiseChoices \/ pendingGets = <<>>

Pending(k, res, got) == [key |-> k, res |-> res, value |-> IF res = "ok" THEN got ELSE NoValue]

\* an error thrown while rendering unmounts the tree
Crash(ops) ==
  /\ mounted' = "crashed"
  /\ timer' = "idle"
  /\ out' = [Quiet EXCEPT !.ops = ops, !.thrown = "render"]
  /\ UNCHANGED <<name, state, pendingGets, hpv, hp>>

\* the first render with the key `nm`, when nothing throws before the store is
\* read
FirstRender(nm, res) ==
  LET store == UseStorage(cfg)
      got == GetItem(content, nm)
      st == StateMemo(store, got)
      eff == RestoreEffect(st, initialValues, values)
      v2 == IF eff.setValues # <<>> THEN eff.setValues[1] ELSE values
  IN   IF store # "none" /\ res = "throw"
         THEN /\ Crash(<<GetOp(nm, res)>>)
              /\ UNCHANGED <<values, hist>>
       ELSE /\ store = "none" => res = "ok"
            /\ mounted' = "mounted"
            /\ name' = nm
            /\ state' = st
            /\ pendingGets' = IF store = "none" THEN pendingGets
                              ELSE Append(pendingGets, Pending(nm, res, got))
            /\ hpv' = NewHandlePersistValues(cfg, nm)
            /\ values' = v2
            /\ hp' = NewHandlePersist(cfg, v2, isValid, persistInvalid)
            /\ timer' = "armed"
            /\ out' = [Quiet EXCEPT
                         !.ops = IF store = "none" THEN <<>> ELSE <<GetOp(nm, res)>>,
                         !.diag = eff.diag, !.setValues = eff.setValues,
                         !.applied = st]
            /\ hist' = [hist EXCEPT !.diags = Count(@, Len(eff.diag), MaxDiag),
                                    !.replaced = Count(@, Len(eff.setValues), MaxReplace)]

\* the first render and its effects
Mount(res) ==
  /\ mounted = "initial"
  /\ Settled
  /\ UNCHANGED <<cfg, persistInvalid, initialValues, isValid, content>>
  /\ IF RenderStringifyThrows(initialValues, values) \/ UseBrowserThrows(cfg)
       THEN /\ res = "ok"
            /\ Crash(<<>>)
            /\ UNCHANGED <<values, hist>>
       ELSE \E nm \in {ResolveName(cfg, initialValues)} : FirstRender(nm, res)

\* one more value change while the timer runs; the first after it was idle
Bump(n) == IF timer = "idle" THEN 1 ELSE Count(n, 1, MaxBurst)

\* a re-render after the Formik context or the persistInvalid prop changed, when
\* neither `name` nor `storage` changed
Rerender(v, valid, pInvalid) ==
  /\ hp' = RefreshHandlePersist(hp, cfg, v, valid, pInvalid)
  /\ timer' = ResetTimer(hp, timer, v, valid, pInvalid)
  /\ out' = Quiet
  /\ UNCHANGED <<cfg, content, mounted, name, state, pendingGets, hpv>>

\* the user edits a field (Formik's setFieldValue)
ChangeValues(f, v) ==
  /\ mounted = "mounted"
  /\ Settled
  /\ ObjSet(values, f, v) # values
  /\ values' = ObjSet(values, f, v)
  /\ Rerender(values', isValid, persistInvalid)
  /\ hist' = [hist EXCEPT !.edited = TRUE, !.burst = Bump(@), !.gateArmed = FALSE]
  /\ UNCHANGED <<persistInvalid, initialValues, isValid>>

\* Formik's validation changes isValid
ChangeValid ==
  /\ mounted = "mounted"
  /\ Settled
  /\ isValid' = ~isValid
  /\ Rerender(values, isValid', persistInvalid)
  /\ hist' = [hist EXCEPT !.gateArmed = TRUE, !.burst = 0]
  /\ UNCHANGED <<persistInvalid, initialValues, values>>

\* the parent passes another persistInvalid
ChangePersistInvalid ==
  /\ mounted = "mounted"
  /\ Settled
  /\ persistInvalid' = ~persistInvalid
  /\ Rerender(values, isValid, persistInvalid')
  /\ hist' = [hist EXCEPT !.gateArmed = TRUE, !.burst = 0]
  /\ UNCHANGED <<isValid, initialValues, values>>

\* the render after a re-initialisation, with the key `nm` the new initial
\* values resolve to, when JSON.stringify does not throw
ReinitialisedRender(iv, nm, res) ==
  LET store == UseStorage(cfg)
      \* the useMemo of `state` has the dependencies [name, storage]
      reads == nm # name /\ store # "none"
      got == GetItem(content, nm)
      st == IF reads THEN StateMemo(store, got) ELSE state
      \* the restore effect has the dependency [persistedString]
      eff == IF st # state THEN RestoreEffect(st, iv, iv)
             ELSE [setValues |-> <<>>, diag |-> <<>>]
  IN  /\ ~reads => res = "ok"
      /\ hist' = [hist EXCEPT
                    !.edited = TRUE, !.burst = Bump(@), !.gateArmed = FALSE,
                    !.rotatedFrom = IF nm = name THEN @
                                    ELSE IF name \in DOMAIN content THEN <<name>>
                                    ELSE <<>>,
                    !.diags = Count(@, Len(eff.diag), MaxDiag),
                    !.replaced = Count(@, Len(eff.setValues), MaxReplace)]
      /\ IF reads /\ res = "throw"
           THEN Crash(<<GetOp(nm, res)>>)
           ELSE /\ name' = nm
                /\ state' = st
                /\ pendingGets' = IF reads THEN Append(pendingGets, Pending(nm, res, got))
                                  ELSE pendingGets
                /\ hp' = RefreshHandlePersist(hp, cfg, iv, isValid, persistInvalid)
                /\ timer' = ResetTimer(hp, timer, iv, isValid, persistInvalid)
                /\ out' = [Quiet EXCEPT
                             !.ops = IF reads THEN <<GetOp(nm, res)>> ELSE <<>>,
                             !.diag = eff.diag, !.setValues = eff.setValues,
                             !.applied = IF st # state THEN st ELSE <<>>]
                /\ UNCHANGED <<mounted, hpv>>

\* Formik re-initialises the form (enableReinitialize): the context gets other
\* initial values and the values are reset to them
ChangeInitialValues(iv, res) ==
  /\ mounted = "mounted"
  /\ Settled
  /\ iv # initialValues
  /\ initialValues' = iv
  /\ values' = iv
  /\ UNCHANGED <<cfg, persistInvalid, isValid, content>>
  /\ IF RenderStringifyThrows(iv, iv)
       THEN /\ res = "ok"
            /\ Crash(<<>>)
            /\ hist' = [hist EXCEPT !.edited = TRUE, !.gateArmed = FALSE]
       ELSE \E nm \in {ResolveName(cfg, iv)} : ReinitialisedRender(iv, nm, res)

\* the store after storage.setItem(name, JSON.stringify(values)) ended as `res`
Written(h, cont, arg, res) ==
  IF res = "ok" THEN SetItem(cont, h.name, PayloadText(arg)) ELSE cont

\* the keys the pruning loop calls removeItem for
PruneCandidates(h, c, written) == {k \in ObjectKeys(c, written) : Prunable(h, k)}

\* handlePersistValues(values): the write and the pruning loop.  `res` is how
\* setItem ends, `removed` the keys removeItem has removed when the loop ends,
\* `rres` how the loop ends (a throwing removeItem ends it early)
PersistValues(h, c, cont, arg, res, removed, rres) ==
  LET text == PayloadText(arg)
      written == Written(h, cont, arg, res)
      candidates == PruneCandidates(h, c, written)
      failing == CHOOSE k \in candidates \ removed : TRUE
  IN  IF res = "throw"
        THEN [content |-> cont, ops |-> <<SetOp(h.name, text, res)>>,
              thrown |-> "timer", unhandled |-> 0]
        ELSE [content |-> RemoveItems(written, removed),
              ops |-> <<SetOp(h.name, text, res)>>
                      \o [i \in 1..Cardinality(removed) |->
                            RemoveOp(SetToSeq(removed)[i], "ok")]
                      \o (IF rres = "throw" THEN <<RemoveOp(failing, rres)>> ELSE <<>>),
              thrown |-> IF rres = "throw" THEN "timer" ELSE "none",
              unhandled |-> IF res = "reject" THEN 1 ELSE 0]

\* useDebounce's timer is a setTimeout: once it has fired it is not running
TimerRepeats(t) == t
TimerAfterFire(t) == "idle"

\* the debounce timer fires and calls handlePersist
DebounceFire(res, removed, rres) ==
  /\ Settled
  /\ timer = "armed"
  /\ timer' = TimerAfterFire(timer)
  /\ UNCHANGED <<cfg, persistInvalid, values, initialValues, isValid, mounted, name,
                 state, pendingGets, hpv, hp, hist>>
  /\ IF Gate(hp) /\ UseStorage(cfg) # "none"
       THEN LET arg == PersistArgument(hp)
                candidates == PruneCandidates(hpv, cfg, Written(hpv, content, arg, res))
                done == PersistValues(hpv, cfg, content, arg, res, removed, rres)
            IN  /\ IF res = "throw" THEN removed = {} /\ rres = "ok"
                   ELSE /\ removed \subseteq candidates
                        /\ \/ rres = "ok" /\ removed = candidates
                           \/ rres = "throw" /\ removed # candidates
                /\ content' = done.content
                /\ out' = [Quiet EXCEPT !.ops = done.ops, !.thrown = done.thrown,
                                        !.unhandled = done.unhandled,
                                        !.filtered = <<ValuesToPersist(hp)>>]
       ELSE /\ res = "ok" /\ removed = {} /\ rres = "ok"
            /\ content' = content
            /\ out' = IF Gate(hp) THEN [Quiet EXCEPT !.filtered = <<ValuesToPersist(hp)>>]
                      ELSE Quiet

\* the oldest getItem promise settles: the then-callback assigns the local
\* `item` of a useMemo callback that has returned, the catch-callback reports
ResolveGet ==
  /\ pendingGets # <<>>
  /\ pendingGets' = Tail(pendingGets)
  /\ IF Head(pendingGets).res = "reject"
       THEN /\ out' = [Quiet EXCEPT !.diag = <<GetError>>]
            /\ hist' = [hist EXCEPT !.diags = Count(@, 1, MaxDiag)]
       ELSE /\ out' = [Quiet EXCEPT !.resolved = <<Head(pendingGets).value>>]
            /\ hist' = [hist EXCEPT !.returned = <<Head(pendingGets).value>>]
  /\ UNCHANGED <<cfg, persistInvalid, values, initialValues, isValid, content, mounted,
                 name, state, hpv, hp, timer>>

\* the cleanup of useDebounce's effect calls clearTimeout
TimerLeftRunning(t) == t
TimerAfterUnmount(t) == "idle"

\* the component unmounts: useDebounce clears its timer, a getItem promise
\* that has not settled stays as it is
Unmount ==
  /\ mounted = "mounted"
  /\ Settled
  /\ mounted' = "unmounted"
  /\ timer' = TimerAfterUnmount(timer)
  /\ out' = Quiet
  /\ hist' = [hist EXCEPT !.cancelled = timer = "armed"]
  /\ UNCHANGED <<cfg, persistInvalid, values, initialValues, isValid, content, name,
                 state, pendingGets, hpv, hp>>

Next ==
  \/ \E res \in Outcomes(cfg) : Mount(res)
  \/ \E f \in Fields, v \in FieldValues : ChangeValues(f, v)
  \/ ChangeValid
  \/ ChangePersistInvalid
  \/ \E iv \in GivenInitialValues, res \in Outcomes(cfg) : ChangeInitialValues(iv, res)
  \/ \E res \in Outcomes(cfg), removed \in SUBSET (DOMAIN content),
        rres \in Outcomes(cfg) \ {"reject"} : DebounceFire(res, removed, rres)
  \/ ResolveGet
  \/ Unmount

Spec == Init /\ [][Next]_vars

---------------------------------------------------------------------------
(* The restore effect as a function of its inputs: a mounted form whose        *)
(* persistedString takes any text, as it would if the `state` memo held the    *)
(* stored item.                                                                *)

PersistedTexts ==
  {JSONstringify(o) : o \in AllObjs} \cup {CorruptText, UndefinedText, <<>>}

InitMerge ==
  /\ cfg = DefaultConfig
  /\ persistInvalid = FALSE
  /\ initialValues \in InitialValuesSet
  /\ values = initialValues
  /\ isValid = TRUE
  /\ content = <<>>
  /\ mounted = "mounted"
  /\ name = ResolveName(cfg, initialValues)
  /\ state = <<>>
  /\ pendingGets = <<>>
  /\ hpv = NewHandlePersistValues(cfg, name)
  /\ hp = NewHandlePersist(cfg, values, isValid, persistInvalid)
  /\ timer = "armed"
  /\ out = Quiet
  /\ hist = NoHistory

\* the restore effect runs with persistedString = text; a call of setValues
\* replaces the values and the form renders again
RunRestoreEffect(text) ==
  /\ mounted = "mounted"
  /\ LET eff == RestoreEffect(<<text>>, initialValues, values)
         v2 == IF eff.setValues # <<>> THEN eff.setValues[1] ELSE values
     IN  /\ state' = <<text>>
         /\ values' = v2
         /\ hp' = RefreshHandlePersist(hp, cfg, v2, isValid, persistInvalid)
         /\ timer' = ResetTimer(hp, timer, v2, isValid, persistInvalid)
         /\ out' = [Quiet EXCEPT !.diag = eff.diag, !.setValues = eff.setValues,
                                 !.applied = <<text>>, !.again = out.applied = <<text>>]
         /\ hist' = [hist EXCEPT !.diags = Count(@, Len(eff.diag), MaxDiag),
                                 !.replaced = Count(@, Len(eff.setValues), MaxReplace)]
  /\ UNCHANGED <<cfg, persistInvalid, initialValues, isValid, content, mounted, name,
                 pendingGets, hpv>>

NextMerge ==
  \/ \E text \in PersistedTexts : RunRestoreEffect(text)
  \/ \E f \in Fields, v \in FieldValues : ChangeValues(f, v)

SpecMerge == InitMerge /\ [][NextMerge]_vars

---------------------------------------------------------------------------
(* The component left alone: it mounts and nothing outside it changes *)

NextQuiet ==
  \/ \E res \in Outcomes(cfg) : Mount(res)
  \/ \E res \in Outcomes(cfg), removed \in SUBSET (DOMAIN content),
        rres \in Outcomes(cfg) \ {"reject"} : DebounceFire(res, removed, rres)
  \/ ResolveGet

\* a timer that runs fires, a promise settles
SpecQuiet == Init /\ [][NextQuiet]_vars /\ WF_vars(NextQuiet)

---------------------------------------------------------------------------
(* Key resolution with hashInitials on, over every initial-values object and *)
(* a range of specificities                                                  *)

MaxSpecificity == 3

\* the hashSpecificity prop: not given, a positive whole number, or 0.3
WholeSpecificities == {<<>>} \cup {<<n>> : n \in 1..MaxSpecificity}
Specificities == WholeSpecificities \cup {<<0, 3>>}

HashConfigs == {[HashConfig EXCEPT !.hashSpecificity = s] : s \in Specificities}

InitHash ==
  /\ cfg \in HashConfigs
  /\ persistInvalid = FALSE
  /\ initialValues \in AllObjs
  /\ values = initialValues
  /\ isValid = TRUE
  /\ content = <<>>
  /\ mounted = "initial"
  /\ name = <<>>
  /\ state = <<>>
  /\ pendingGets = <<>>
  /\ hpv = NoPersistValues
  /\ hp = NewHandlePersist(cfg, values, isValid, persistInvalid)
  /\ timer = "idle"
  /\ out = Quiet
  /\ hist = NoHistory

NextHash ==
  \/ Mount("ok")
  \/ ResolveGet
  \/ \E iv \in AllObjs : ChangeInitialValues(iv, "ok")

SpecHash == InitHash /\ [][NextHash]_vars

---------------------------------------------------------------------------
(* The claims *)

SetCalls(o) == SelectSeq(o.ops, LAMBDA c : c.op = "set")
RemoveCalls(o) == SelectSeq(o.ops, LAMBDA c : c.op = "remove")

\* the get has been answered and the debounce window has passed
AtRest == mounted = "mounted" /\ pendingGets = <<>> /\ timer = "idle"

\* the last settled getItem returned a text JSON.parse accepts
ReturnedParseable ==
  /\ hist.returned # <<>>
  /\ hist.returned[1].found
  /\ JSONparses(hist.returned[1].text)

\* the last settled getItem returned a text JSON.parse rejects
ReturnedCorrupt ==
  /\ hist.returned # <<>>
  /\ hist.returned[1].found
  /\ ~JSONparses(hist.returned[1].text)

\* C1: restore on mount.  When the store held a JSON-parseable payload S under
\* the resolved key at the mount and nobody else changed the form, then once the
\* get has been answered and the component is at rest the form's values are
\* {...initialValues, ...S}.
C1_RestoreOnMount ==
  (AtRest /\ ~hist.edited /\ ReturnedParseable)
    => values = Spread(initialValues, JSONparse(hist.returned[1].text))

\* the step is a firing of the debounce timer
IsFire == timer = "armed" /\ timer' = "idle" /\ mounted' = "mounted"

\* the text of the snapshot v as the configuration c persists it
SnapshotText(c, v) ==
  LET kept == IF c.ignoreValues # <<>> THEN Omit(v, c.ignoreValues[1]) ELSE v
  IN  IF c.parseValues # "none" THEN PayloadText(ParseValues(c.parseValues, kept))
      ELSE JSONstringify(kept)

\* C2: debounce coalescing.  No step other than a firing of the timer issues a
\* store set, and a firing with the gate open issues exactly one, whose payload
\* is the serialization of the form's values at that moment: a burst of changes
\* during which the timer never fires ends in one write of the last snapshot.
C2_DebounceCoalescing ==
  [][ /\ (IsFire /\ (isValid \/ persistInvalid) /\ UseStorage(cfg) # "none")
          => /\ Len(SetCalls(out')) = 1
             /\ SetCalls(out')[1].text = SnapshotText(cfg, values)
      /\ ~IsFire => Len(SetCalls(out')) = 0 ]_vars

\* a burst of at least two value changes was written by one firing
C2_Witness ==
  /\ hist.burst >= 2
  /\ timer = "idle"
  /\ out.filtered # <<>>
  /\ Len(SetCalls(out)) = 1
  /\ SetCalls(out)[1].res = "ok"
  /\ SetCalls(out)[1].text = JSONstringify(values)
  /\ values # initialValues

\* C3: validity gate.  A firing of the timer while the form is invalid and
\* persistInvalid is false issues no store set and no store remove, and leaves
\* the store as it was.
C3_ValidityGate ==
  [][ (IsFire /\ ~isValid /\ ~persistInvalid)
        => /\ Len(SetCalls(out')) = 0
           /\ Len(RemoveCalls(out')) = 0
           /\ content' = content ]_vars

\* the timer has fired on an invalid form after changes, and the payload
\* persisted before is still there
C3_Witness ==
  /\ mounted = "mounted"
  /\ timer = "idle"
  /\ ~isValid /\ ~persistInvalid
  /\ hist.burst >= 2
  /\ name \in DOMAIN content
  /\ content[name] = GoodText
  /\ out = Quiet

\* the last step was a write-and-prune sequence that ran to its end
WroteAndPruned ==
  /\ Len(SetCalls(out)) = 1
  /\ SetCalls(out)[1].res = "ok"
  /\ out.thrown = "none"

\* C4: pruning invariant.  After every completed write-and-prune sequence of
\* the form named N, on a browser store or a custom store, the store holds no
\* key containing N + "_" other than the key just written.
C4_PruningInvariant ==
  WroteAndPruned
    => \A k \in DOMAIN content :
         IndexOfFound(k, KeyName(cfg)) => k = SetCalls(out)[1].key

\* C5: key rotation.  With hashInitials on, after the initial values changed the
\* resolved key from K1, which held a payload, to K2, a completed persist has
\* written its payload under K2, and K1 is absent from the store.
C5_KeyRotation ==
  (cfg.hashInitials /\ hist.rotatedFrom # <<>> /\ WroteAndPruned)
    => /\ SetCalls(out)[1].key = name
       /\ name \in DOMAIN content
       /\ content[name] = SetCalls(out)[1].text
       /\ hist.rotatedFrom[1] \notin DOMAIN content

\* C6: corrupt payload.  When the store returned a payload for the resolved key
\* that is not valid JSON, then once the component is at rest exactly one
\* diagnostic has been emitted, setValues was not called, the values are
\* unchanged and no error left the component.
C6_CorruptPayload ==
  (AtRest /\ ~hist.edited /\ ReturnedCorrupt)
    => /\ hist.diags = 1
       /\ hist.replaced = 0
       /\ values = initialValues
       /\ out.thrown = "none"

\* C7: storage failure containment.  A store operation that throws, or a set or
\* remove whose promise rejects, is reported to the diagnostic channel, and no
\* error leaves the component, neither as an exception nor as a rejection
\* nobody handles.
C7_StorageFailureContained ==
  \A i \in DOMAIN out.ops :
    (\/ out.ops[i].res = "throw"
     \/ out.ops[i].res = "reject" /\ out.ops[i].op # "get")
      => /\ out.thrown = "none"
         /\ out.unhandled = 0
         /\ out.diag # <<>>

\* the configured ignore list, as a set of field names
IgnoreList == IF cfg.ignoreValues = <<>> THEN {} ELSE cfg.ignoreValues[1]

\* C8: ignore-list filtering.  The snapshot handlePersist persists (before any
\* parseValues transform) has no top-level field named in the ignore list and
\* has every other top-level field of the current values with its value; with no
\* transform configured, the payload written is the JSON text of exactly that.
C8_IgnoreListFiltering ==
  out.filtered # <<>>
    => LET kept == out.filtered[1]
       IN  /\ ObjKeys(kept) = ObjKeys(values) \ IgnoreList
           /\ \A f \in ObjKeys(kept) : ObjGet(kept, f) = ObjGet(values, f)
           /\ (cfg.parseValues = "none" /\ SetCalls(out) # <<>>)
                => LET text == SetCalls(out)[1].text
                   IN  /\ JSONparses(text)
                       /\ ObjKeys(JSONparse(text)) = ObjKeys(values) \ IgnoreList
                       /\ \A f \in ObjKeys(JSONparse(text)) :
                            ObjGet(JSONparse(text), f) = ObjGet(values, f)

\* a snapshot with the ignored field and another field was written without it
C8_Witness ==
  /\ IgnoreList = {"p"}
  /\ cfg.parseValues = "none"
  /\ ObjKeys(values) = {"u", "p"}
  /\ out.filtered # <<>>
  /\ WroteAndPruned
  /\ name \in DOMAIN content
  /\ JSONparses(content[name])
  /\ ObjKeys(JSONparse(content[name])) = {"u"}

ExpectedKey ==
  IF cfg.hashInitials
    THEN cfg.name \o <<"_">>
         \o NumberToString(GetHash(initialValues, cfg.hashSpecificity))
    ELSE cfg.name

\* C10: key resolution.  Every get and every set uses the key that the form
\* name, the hash flag, the specificity and the current initial values resolve
\* to: the form name itself, or the form name, "_" and the checksum.
C10_KeyResolution ==
  \A i \in DOMAIN out.ops :
    out.ops[i].op \in {"get", "set"} => out.ops[i].key = ExpectedKey

\* C11: serialization failure is swallowed.  With hashInitials on and initial
\* values that cannot be serialized (a cyclic structure), the checksum is 0 and
\* once the component has rendered the resolved key is the form name + "_0";
\* no render throws.
C11_SerializationFailureSwallowed ==
  (cfg.hashInitials /\ StringifyThrows(initialValues) /\ mounted # "initial")
    => /\ GetHash(initialValues, cfg.hashSpecificity) = 0
       /\ name = KeyName(cfg) \o <<"0">>
       /\ mounted # "crashed"
       /\ out.thrown = "none"

\* C12: no storage available.  With the storage choice "localStorage" or
\* "sessionStorage" (or the default) and no browser `window`, the store
\* resolves to undefined without an error: no render throws, no store
\* operation is ever issued and the form's values are never replaced.  (Stated
\* for initial values that can be serialized.)
C12_NoStorageAvailable ==
  (/\ cfg.storage \in BrowserChoices /\ cfg.window # "object"
   /\ mounted # "initial" /\ ~StringifyThrows(initialValues))
    => /\ mounted # "crashed"
       /\ out.thrown = "none"
       /\ out.ops = <<>>
       /\ out.setValues = <<>>
       /\ hist.replaced = 0

\* C13: teardown.  Once the component has unmounted, no step issues a store
\* set or remove or changes the store (the debounced write pending at the
\* unmount never runs), and no step replaces the form's values (a getItem
\* promise that settles after the unmount changes nothing).
C13_Teardown ==
  [][ mounted = "unmounted"
        => /\ Len(SetCalls(out')) = 0
           /\ Len(RemoveCalls(out')) = 0
           /\ content' = content
           /\ out'.setValues = <<>>
           /\ values' = values ]_vars

\* the component unmounted while the timer was running and a get was in
\* flight, and the get has since been answered with a parseable payload
C13_Witness ==
  /\ mounted = "unmounted"
  /\ hist.cancelled
  /\ out.resolved # <<>>
  /\ out.resolved[1].found
  /\ JSONparses(out.resolved[1].text)
  /\ values = initialValues

\* C14: prune only after a successful write.  When the set of a persist
\* sequence fails (it throws, or the promise it returns rejects), that sequence
\* issues no remove.
C14_PruneOnlyAfterSuccessfulWrite ==
  (Len(SetCalls(out)) = 1 /\ SetCalls(out)[1].res # "ok")
    => Len(RemoveCalls(out)) = 0

\* C15: re-arm on gate change.  A change of isValid or of persistInvalid that
\* leaves the values as they are restarts the debounce timer; the firing of a
\* timer so restarted, with the gate open and a store present, issues one set
\* of the current snapshot; and once that timer has fired on a store that does
\* not fail, the store holds the current snapshot.
C15_RearmOnGateChange ==
  [][ /\ ( /\ mounted' = "mounted"
           /\ isValid' # isValid \/ persistInvalid' # persistInvalid
           /\ values' = values )
         => timer' = "armed"
      /\ ( /\ IsFire /\ hist.gateArmed
           /\ isValid \/ persistInvalid
           /\ UseStorage(cfg) # "none" )
         => /\ Len(SetCalls(out')) = 1
            /\ SetCalls(out')[1].text = SnapshotText(cfg, values)
      /\ ( /\ mounted' = "mounted" /\ timer' = "idle" /\ hist'.gateArmed
           /\ isValid' \/ persistInvalid'
           /\ UseStorage(cfg) # "none" /\ ~cfg.faulty )
         => \E k \in DOMAIN content' : content'[k] = SnapshotText(cfg, values') ]_vars

\* the form was edited while invalid, became valid again with persistInvalid
\* false, and the timer restarted by that change has written the edited values
C15_Witness ==
  /\ mounted = "mounted"
  /\ timer = "idle"
  /\ hist.gateArmed
  /\ isValid /\ ~persistInvalid
  /\ hist.edited
  /\ values # initialValues
  /\ out.filtered # <<>>
  /\ Len(SetCalls(out)) = 1
  /\ SetCalls(out)[1].res = "ok"
  /\ name \in DOMAIN content
  /\ content[name] = JSONstringify(values)

\* the object o has every field of the object p, with p's value
HasFieldValuesOf(o, p) ==
  \A f \in ObjKeys(p) : f \in ObjKeys(o) /\ ObjGet(o, f) = ObjGet(p, f)

\* C16: restore before overwrite.  When the store held a parseable payload P
\* under the resolved key at the mount and nobody has edited the form (no
\* ignore-list, no transform), the payload under that key still has P's field
\* values: no write of the persistor has replaced P by a snapshot without them.
C16_RestoreBeforeOverwrite ==
  ( /\ ~hist.edited /\ ReturnedParseable
    /\ cfg.ignoreValues = <<>> /\ cfg.parseValues = "none" )
    => /\ name \in DOMAIN content
       /\ JSONparses(content[name])
       /\ HasFieldValuesOf(JSONparse(content[name]), JSONparse(hist.returned[1].text))

DigitChars == {"0", "1", "2", "3", "4", "5", "6", "7", "8", "9"}

\* key is the form's key prefix followed by a checksum
OwnVariantKey(c, key) ==
  /\ Len(key) > Len(KeyName(c))
  /\ SubSeq(key, 1, Len(KeyName(c))) = KeyName(c)
  /\ \A i \in (Len(KeyName(c)) + 1)..Len(key) : key[i] \in DigitChars

\* C17: pruning is confined to the form's own keys.  Every remove a
\* write-and-prune sequence of the form named N issues is for a key of the
\* shape N + "_" + checksum; a key of a form with another name is never removed.
C17_PruningConfinedToOwnForm ==
  \A i \in DOMAIN out.ops :
    out.ops[i].op = "remove" => OwnVariantKey(cfg, out.ops[i].key)

\* the multiplier getHash uses for the whole hashSpecificity prop s
SpecificityOf(s) == IF s = <<>> THEN DefaultSpecificity ELSE s[1]

\* the checksums and the keys of every object at every specificity
ChecksumOf == [s \in Specificities |-> [o \in AllObjs |-> GetHash(o, s)]]
KeyOf ==
  [s \in Specificities |->
     [o \in AllObjs |-> ResolveName([HashConfig EXCEPT !.hashSpecificity = s], o)]]

\* at the specificities s and s2 the objects A and B have equal checksums, and
\* equal keys, at both or at neither
CollideAlike(A, B, s, s2) ==
  /\ (ChecksumOf[s][A] = ChecksumOf[s][B]) <=> (ChecksumOf[s2][A] = ChecksumOf[s2][B])
  /\ (KeyOf[s][A] = KeyOf[s][B]) <=> (KeyOf[s2][A] = KeyOf[s2][B])

Idle == mounted # "initial" /\ pendingGets = <<>> /\ timer = "idle"

\* C19: quiescence.  After the mount, with no edit and no change of props, the
\* component comes to rest and stays at rest: the timer, once it has fired, is
\* never restarted, and a step that writes to the store neither replaces the
\* form's values nor issues another read, so a write-back cannot start another
\* restore.
C19_Quiescence ==
  /\ <>[]Idle
  /\ [][ /\ (mounted # "initial" /\ timer = "idle") => timer' = "idle"
         /\ Len(SetCalls(out')) > 0
              => /\ state' = state
                 /\ pendingGets' = pendingGets
                 /\ values' = values
                 /\ out'.setValues = <<>>
                 /\ \A i \in DOMAIN out'.ops : out'.ops[i].op # "get" ]_vars

\* the get was answered with a payload, the one debounced write was issued and
\* the component is at rest
C19_Witness ==
  /\ Idle
  /\ mounted = "mounted"
  /\ hist.returned # <<>>
  /\ hist.returned[1].found
  /\ out.filtered # <<>>
  /\ Len(SetCalls(out)) = 1
  /\ ~hist.edited
  /\ ~hist.gateArmed

=============================================================================
